---- MODULE Spec2Model ----
(***************************************************************************)
(* Model of the tiered pricing engine of calculatorapp.py: the TIERS       *)
(* table and the three methods of PricingCalculator.                       *)
(*                                                                         *)
(* Amounts of spend are whole dollars.  Rates carry four decimals in the   *)
(* source (0.0330 ... 0.0034); a rate is held as the integer rate * 10^4   *)
(* and a cost as a pair (whole dollars, ten-thousandths of a dollar), so   *)
(* that every product and sum of the source is computed exactly and stays  *)
(* within 32-bit integers.                                                 *)
(***************************************************************************)
EXTENDS Integers, Sequences, FiniteSets

VARIABLES tiers, call, spend, commit, total, remaining, result, outcome

vars == <<tiers, call, spend, commit, total, remaining, result, outcome>>

(* ------------------------------------------------------------------ *)
(* Bounds of the model                                                 *)
(* ------------------------------------------------------------------ *)

\* Half-width of the window of spends explored around every tier bound.
MaxDelta == 1

\* Half-width of the window of commitments explored around every tier upper.
MaxCommitDelta == 1

(* ------------------------------------------------------------------ *)
(* Program constants                                                   *)
(* ------------------------------------------------------------------ *)

\* Denominator of the fixed-point rates: 0.0330 is held as 330.
RateScale == 10000

\* The pricing tiers; rate is the source's rate times RateScale.
TIERS ==
  << [lower |-> 0,         upper |-> 125000,    rate |-> 330],
     [lower |-> 125001,    upper |-> 250000,    rate |-> 315],
     [lower |-> 250001,    upper |-> 416667,    rate |-> 297],
     [lower |-> 416668,    upper |-> 833333,    rate |-> 264],
     [lower |-> 833334,    upper |-> 1666667,   rate |-> 231],
     [lower |-> 1666668,   upper |-> 2500000,   rate |-> 215],
     [lower |-> 2500001,   upper |-> 3333333,   rate |-> 198],
     [lower |-> 3333334,   upper |-> 4166667,   rate |-> 182],
     [lower |-> 4166668,   upper |-> 6250000,   rate |-> 165],
     [lower |-> 6250001,   upper |-> 8333333,   rate |-> 132],
     [lower |-> 8333334,   upper |-> 12500000,  rate |-> 116],
     [lower |-> 12500001,  upper |-> 16666667,  rate |-> 107],
     [lower |-> 16666668,  upper |-> 20833333,  rate |-> 100],
     [lower |-> 20833334,  upper |-> 25000000,  rate |-> 95],
     [lower |-> 25000001,  upper |-> 29166667,  rate |-> 91],
     [lower |-> 29166668,  upper |-> 33333333,  rate |-> 88],
     [lower |-> 33333334,  upper |-> 41666667,  rate |-> 84],
     [lower |-> 41666668,  upper |-> 62500000,  rate |-> 69],
     [lower |-> 62500001,  upper |-> 83333333,  rate |-> 62],
     [lower |-> 83333334,  upper |-> 104166667, rate |-> 54],
     [lower |-> 104166668, upper |-> 125000000, rate |-> 50],
     [lower |-> 125000001, upper |-> 145833333, rate |-> 46],
     [lower |-> 145833334, upper |-> 166666667, rate |-> 43],
     [lower |-> 166666668, upper |-> 187500000, rate |-> 40],
     [lower |-> 187500001, upper |-> 208333333, rate |-> 38],
     [lower |-> 208333334, upper |-> 250000000, rate |-> 34] >>

\* Spend at or below which the minimum invoice applies.
FLOOR_SPEND == 125000

\* The minimum invoice, in dollars.
MIN_INVOICE == 2500

(* ------------------------------------------------------------------ *)
(* Exact money arithmetic                                              *)
(* ------------------------------------------------------------------ *)

\* A cost of `whole` dollars and `frac` ten-thousandths, 0 <= frac < RateScale.
Money(whole, frac) == [whole |-> whole, frac |-> frac]

\* The integer literal n of dollars (0, 2500) as a cost.
Dollars(n) == Money(n, 0)

\* amount * rate: dollars times a fixed-point rate.
Times(amount, rate) ==
  LET q == amount \div RateScale
      r == amount % RateScale
      p == r * rate
  IN  Money(q * rate + p \div RateScale, p % RateScale)

\* a + b on costs.
Plus(a, b) ==
  LET f == a.frac + b.frac
  IN  Money(a.whole + b.whole + f \div RateScale, f % RateScale)

\* a <= b on costs.
Leq(a, b) == a.whole < b.whole \/ (a.whole = b.whole /\ a.frac <= b.frac)

\* max(a, b) on costs.
MaxCost(a, b) == IF Leq(b, a) THEN a ELSE b

\* min(a, b) on dollars.
Min(a, b) == IF a <= b THEN a ELSE b

(* ------------------------------------------------------------------ *)
(* PricingCalculator: the three methods                                *)
(* ------------------------------------------------------------------ *)

\* The for-loop of calculate_flex_price from tier i on, with the locals
\* total and remaining; yields their values when the loop ends.
RECURSIVE FlexLoop(_, _, _)
FlexLoop(i, tot, rem) ==
  IF i > Len(tiers) \/ rem <= 0
  THEN [total |-> tot, remaining |-> rem]
  ELSE LET tier == tiers[i]
           tier_spend == Min(rem, tier.upper - tier.lower)
       IN  FlexLoop(i + 1, Plus(tot, Times(tier_spend, tier.rate)), rem - tier_spend)

\* Mutant of FlexReturn: the minimum invoice is forgotten.
FlexReturn_NoFloor(monthly_spend, tot) == tot

\* The return of calculate_flex_price: the minimum invoice for small spends.
FlexReturn(monthly_spend, tot) ==
  IF monthly_spend <= FLOOR_SPEND
  THEN MaxCost(tot, Dollars(MIN_INVOICE))
  ELSE tot

\* Mutant of calculate_flex_price: the whole spend is billed at the rate of the
\* tier it falls in, instead of tier by tier.
calculate_flex_price_Cliff(monthly_spend) ==
  LET hits == {i \in 1..Len(tiers) : tiers[i].upper >= monthly_spend}
      k == IF hits = {} THEN Len(tiers) ELSE CHOOSE i \in hits : \A j \in hits : i <= j
  IN  FlexReturn(monthly_spend, Times(monthly_spend, tiers[k].rate))

calculate_flex_price(monthly_spend) ==
  FlexReturn(monthly_spend, FlexLoop(1, Dollars(0), monthly_spend).total)

\* next(...) over the tiers: the first index satisfying a test, the last if none.
FirstOrLast(hits) ==
  IF hits = {} THEN Len(tiers) ELSE CHOOSE i \in hits : \A j \in hits : i <= j

\* The tier whose rate a commitment gets.
commit_tier(commit_amount) ==
  tiers[FirstOrLast({i \in 1..Len(tiers) : tiers[i].upper >= commit_amount})]

\* Mutant of calculate_commit_price: no special case for a commitment of zero.
calculate_commit_price_NoZeroCase(monthly_spend, commit_amount) ==
  LET commit_rate == commit_tier(commit_amount).rate
      committed_amount == Times(Min(monthly_spend, commit_amount), commit_rate)
      overflow_amount ==
        IF monthly_spend > commit_amount
        THEN calculate_flex_price(monthly_spend - commit_amount)
        ELSE Dollars(0)
  IN  Plus(committed_amount, overflow_amount)

\* Mutant of calculate_commit_price: the whole commitment is billed, used or not.
calculate_commit_price_BillsCommit(monthly_spend, commit_amount) ==
  IF commit_amount = 0
  THEN calculate_flex_price(monthly_spend)
  ELSE LET commit_rate == commit_tier(commit_amount).rate
           committed_amount == Times(commit_amount, commit_rate)
           overflow_amount ==
             IF monthly_spend > commit_amount
             THEN calculate_flex_price(monthly_spend - commit_amount)
             ELSE Dollars(0)
       IN  Plus(committed_amount, overflow_amount)

\* Mutant of calculate_commit_price: the overflow is the accumulated tier cost,
\* without the minimum invoice of calculate_flex_price.
calculate_commit_price_RawOverflow(monthly_spend, commit_amount) ==
  IF commit_amount = 0
  THEN calculate_flex_price(monthly_spend)
  ELSE LET commit_rate == commit_tier(commit_amount).rate
           committed_amount == Times(Min(monthly_spend, commit_amount), commit_rate)
           overflow_amount ==
             IF monthly_spend > commit_amount
             THEN FlexLoop(1, Dollars(0), monthly_spend - commit_amount).total
             ELSE Dollars(0)
       IN  Plus(committed_amount, overflow_amount)

calculate_commit_price(monthly_spend, commit_amount) ==
  IF commit_amount = 0
  THEN calculate_flex_price(monthly_spend)
  ELSE LET commit_rate == commit_tier(commit_amount).rate
           committed_amount == Times(Min(monthly_spend, commit_amount), commit_rate)
           overflow_amount ==
             IF monthly_spend > commit_amount
             THEN calculate_flex_price(monthly_spend - commit_amount)
             ELSE Dollars(0)
       IN  Plus(committed_amount, overflow_amount)

\* Mutant of tier_index: the default of next(...) is the first tier.
tier_index_FirstDefault(monthly_spend) ==
  LET hits == {i \in 1..Len(tiers) :
                 monthly_spend >= tiers[i].lower /\ monthly_spend <= tiers[i].upper}
  IN  IF hits = {} THEN 1 ELSE CHOOSE i \in hits : \A j \in hits : i <= j

\* Index of current_tier in recommend_commit_tier.
tier_index(monthly_spend) ==
  FirstOrLast({i \in 1..Len(tiers) :
                 monthly_spend >= tiers[i].lower /\ monthly_spend <= tiers[i].upper})

\* Mutant of NearTop: >= in place of >.
NearTop_Inclusive(monthly_spend, upper) == 5 * monthly_spend >= 4 * upper

\* monthly_spend > upper * 0.8, on integers.
NearTop(monthly_spend, upper) == 5 * monthly_spend > 4 * upper

recommend_commit_tier(monthly_spend) ==
  LET k == tier_index(monthly_spend)
  IN  IF k < Len(tiers) /\ NearTop(monthly_spend, tiers[k].upper)
      THEN tiers[k + 1].upper
      ELSE tiers[k].upper

(* ------------------------------------------------------------------ *)
(* Inputs                                                              *)
(* ------------------------------------------------------------------ *)

Window(c, d) == {c + e : e \in (0 - d)..d}

TierBounds == {TIERS[i].lower : i \in 1..Len(TIERS)} \cup {TIERS[i].upper : i \in 1..Len(TIERS)}

TierUppers == {TIERS[i].upper : i \in 1..Len(TIERS)}

\* Spends: around every tier bound (so below zero and above the table too),
\* at the 80% marks of the tiers, where the minimum invoice stops binding,
\* where the loop runs out of tiers, and the spec's scenario values.
Spends ==
  UNION {Window(b, MaxDelta) : b \in TierBounds}
    \cup UNION {{(4 * u) \div 5, (4 * u) \div 5 + 1} : u \in TierUppers}
    \cup {-50000, 50000, 75757, 75758, 110000, 200000, 500000,
          249999975, 249999976, 300000000}

\* Commitments: none, negative, around every tier upper, above the table.
Commits ==
  UNION {Window(u, MaxCommitDelta) : u \in TierUppers}
    \cup {-10000, 0, 10000, 50000, 300000000}

\* The value of a local or a return before any call has set it.
NoValue == [none |-> TRUE]

(* ------------------------------------------------------------------ *)
(* State machine                                                       *)
(* ------------------------------------------------------------------ *)

\* PricingCalculator(TIERS) constructed, arguments chosen, nothing called.
Init ==
  /\ tiers = TIERS
  /\ call = "none"
  /\ spend \in Spends
  /\ commit \in Commits
  /\ total = NoValue
  /\ remaining = NoValue
  /\ result = NoValue
  /\ outcome = NoValue

\* Mutant of CalcFlexPrice: the loop consumes the table it walks.
CalcFlexPrice_ConsumesTiers ==
  /\ call' = "flex"
  /\ LET loop == FlexLoop(1, Dollars(0), spend)
     IN  /\ total' = loop.total
         /\ remaining' = loop.remaining
  /\ result' = calculate_flex_price(spend)
  /\ outcome' = "returned"
  /\ tiers' = Tail(tiers)
  /\ UNCHANGED <<spend, commit>>

\* calculator.calculate_flex_price(spend)
CalcFlexPrice ==
  /\ call' = "flex"
  /\ LET loop == FlexLoop(1, Dollars(0), spend)
     IN  /\ total' = loop.total
         /\ remaining' = loop.remaining
  /\ result' = calculate_flex_price(spend)
  /\ outcome' = "returned"
  /\ UNCHANGED <<tiers, spend, commit>>

\* calculator.calculate_commit_price(spend, commit); total and remaining
\* are the locals of the calculate_flex_price call it makes, if it makes one.
CalcCommitPrice ==
  /\ call' = "commit"
  /\ IF commit = 0 \/ spend > commit
     THEN LET loop == FlexLoop(1, Dollars(0), spend - commit)
          IN  /\ total' = loop.total
              /\ remaining' = loop.remaining
     ELSE UNCHANGED <<total, remaining>>
  /\ result' = calculate_commit_price(spend, commit)
  /\ outcome' = "returned"
  /\ UNCHANGED <<tiers, spend, commit>>

\* calculator.recommend_commit_tier(spend)
RecommendCommitTier ==
  /\ call' = "recommend"
  /\ result' = recommend_commit_tier(spend)
  /\ outcome' = "returned"
  /\ UNCHANGED <<tiers, spend, commit, total, remaining>>

Next == CalcFlexPrice \/ CalcCommitPrice \/ RecommendCommitTier

Spec == Init /\ [][Next]_vars

\* The calculator with no commitment chosen: the arguments of
\* calculate_flex_price and recommend_commit_tier alone vary.
InitFlex == Init /\ commit = 0

SpecFlex == InitFlex /\ [][Next]_vars

(* ------------------------------------------------------------------ *)
(* What the specification says, stated on the shipped table            *)
(* ------------------------------------------------------------------ *)

\* First index of TIERS in a set of indices, the last index if the set is empty.
SpecFirstOrLast(hits) ==
  IF hits = {} THEN Len(TIERS) ELSE CHOOSE i \in hits : \A j \in hits : i <= j

\* "the first tier whose upper >= commitAmount; if none exists, the last tier"
SpecCommitTier(c) ==
  TIERS[SpecFirstOrLast({i \in 1..Len(TIERS) : TIERS[i].upper >= c})]

\* "the tier whose [lower, upper] range contains spend; ... fall back to the last"
SpecCurrentIndex(s) ==
  SpecFirstOrLast({i \in 1..Len(TIERS) : TIERS[i].lower <= s /\ s <= TIERS[i].upper})

\* The TierTable invariants 1, 3, 4, 5 and upper > lower of every tier.
TierTableInvariants(t) ==
  /\ Len(t) > 0
  /\ t[1].lower = 0
  /\ \A i \in 1..Len(t) : t[i].upper > t[i].lower
  /\ \A i \in 1..(Len(t) - 1) : t[i + 1].lower = t[i].upper + 1
  /\ \A i \in 1..(Len(t) - 1) : t[i + 1].rate < t[i].rate

\* C1: flex price is monotonically non-decreasing in spend: for 0 <= a <= b,
\* calculate_flex_price(a) <= calculate_flex_price(b).
C1_FlexMonotone ==
  (call = "flex" /\ spend >= 0) =>
    \A a \in Spends : (0 <= a /\ a <= spend) => Leq(calculate_flex_price(a), result)

\* A pair straddling the 125,000 threshold has been compared: 125,001 priced
\* at 4125.0315, above the 4125 of 125,000.
C1_Witness ==
  /\ call = "flex" /\ spend = 125001
  /\ result = Money(4125, 315)
  /\ calculate_flex_price(125000) = Dollars(4125)

\* C2: for spend <= 125,000 calculate_flex_price returns max(accumulated, 2500),
\* hence at least 2500; above 125,000 it returns the accumulated total as it is.
C2_MinimumInvoice ==
  call = "flex" =>
    IF spend <= 125000
    THEN result = MaxCost(total, Dollars(2500)) /\ Leq(Dollars(2500), result)
    ELSE result = total

\* 50,000 accumulates 1650 and is invoiced 2500.
C2_Witness ==
  call = "flex" /\ spend = 50000 /\ total = Dollars(1650) /\ result = Dollars(2500)

\* C3: for spend >= 0, calculate_commit_price(spend, 0) equals
\* calculate_flex_price(spend), the minimum invoice included.
C3_ZeroCommit ==
  (call = "commit" /\ commit = 0 /\ spend >= 0) => result = calculate_flex_price(spend)

\* A zero commitment on a spend of zero is invoiced the minimum 2500.
C3_Witness ==
  call = "commit" /\ commit = 0 /\ spend = 0 /\ result = Dollars(2500)

\* C4 as stated: for 0 <= spend <= commitAmount, calculate_commit_price is
\* min(spend, commitAmount) times the commit tier's rate, with no overflow
\* and no minimum invoice.
C4_FullCommitAsStated ==
  (call = "commit" /\ 0 <= spend /\ spend <= commit) =>
    result = Times(Min(spend, commit), SpecCommitTier(commit).rate)

\* C4 amended: the same for 0 <= spend <= commitAmount with commitAmount > 0.
C4_FullCommit ==
  (call = "commit" /\ 0 <= spend /\ spend <= commit /\ commit > 0) =>
    result = Times(Min(spend, commit), SpecCommitTier(commit).rate)

\* 50,000 spent under a commitment of 125,000 costs 1650, below the minimum.
C4_Witness ==
  call = "commit" /\ spend = 50000 /\ commit = 125000 /\ result = Dollars(1650)

\* C5: for spend >= 0, recommend_commit_tier returns the upper bound of some
\* tier, not below the selected tier's lower bound and not above 250,000,000.
C5_TableCoverage ==
  (call = "recommend" /\ spend >= 0) =>
    /\ result >= TIERS[SpecCurrentIndex(spend)].lower
    /\ result <= 250000000
    /\ result \in TierUppers

\* A spend above every tier is recommended the table's maximum.
C5_Witness ==
  call = "recommend" /\ spend = 300000000 /\ result = 250000000

\* C6: a negative spend or commitment is rejected with InvalidArgument.
C6_NegativeRejected ==
  (call # "none" /\ (spend < 0 \/ (call = "commit" /\ commit < 0))) =>
    outcome = "InvalidArgument"

\* C7: the table satisfies the TierTable invariants and no call changes it.
C7_TableImmutableAndValid ==
  tiers = TIERS /\ TierTableInvariants(tiers)

\* A recommendation made after a pricing call, the table still being valid.
C7_Witness ==
  call = "recommend" /\ total # NoValue /\ TierTableInvariants(tiers)

\* C8: for 0 <= spend <= 250,000,000 the loop of calculate_flex_price ends
\* with remaining = 0.
C8_AllSpendAllocated ==
  (call = "flex" /\ 0 <= spend /\ spend <= 250000000) => remaining = 0

\* C9: for commitAmount > 0 and spend > commitAmount, calculate_commit_price is
\* commitAmount * commitTier.rate + calculate_flex_price(spend - commitAmount).
C9_OverflowBlend ==
  (call = "commit" /\ commit > 0 /\ spend > commit) =>
    result = Plus(Times(commit, SpecCommitTier(commit).rate),
                  calculate_flex_price(spend - commit))

\* One dollar over a commitment of 125,000: 4125 plus the 2500 minimum on the
\* overflow.
C9_Witness ==
  call = "commit" /\ spend = 125001 /\ commit = 125000 /\ result = Dollars(6625)

\* C10: recommend_commit_tier returns nextTier.upper exactly when a next tier
\* exists and spend > currentTier.upper * 0.8, else currentTier.upper;
\* recommend_commit_tier(110000) = 250000.
C10_DecisionRule ==
  (call = "recommend" /\ spend >= 0) =>
    LET k == SpecCurrentIndex(spend)
    IN  /\ result = IF k < Len(TIERS) /\ 5 * spend > 4 * TIERS[k].upper
                    THEN TIERS[k + 1].upper
                    ELSE TIERS[k].upper
        /\ spend = 110000 => result = 250000

\* 100,000 is exactly 80% of the first tier: the current tier is recommended.
C10_Witness ==
  call = "recommend" /\ spend = 100000 /\ result = 125000

====
